---- MODULE Spec2Model ----
(***************************************************************************)
(* A model of the es38 rotary-encoder crate (src/src/lib.rs): the Angle    *)
(* counter, the two-sample Velocity window and the Encoder that owns both. *)
(*                                                                         *)
(* Angles are records [counts, counts_per_rev]; counts is an i16 and keeps *)
(* its width.  Integer overflow of an i16 panics when the crate is built   *)
(* with overflow checks (the dev/test profile) and wraps modulo 2^16       *)
(* otherwise (the release profile); overflow_checks fixes the build.       *)
(* f32 values keep their width too: a sign, a mantissa of 24 bits and an   *)
(* exponent, or one of +inf, -inf, NaN; every f32 operation rounds.        *)
(***************************************************************************)
EXTENDS Integers, Sequences, FiniteSets, TLC

VARIABLES
    overflow_checks,  \* TRUE: arithmetic overflow panics; FALSE: it wraps
    angle,            \* Encoder.angle, or the Angle under test
    velocity,         \* Encoder.velocity, or the Velocity under test
    ret,              \* the last call: its name, its arguments and what it returned
    panicked,         \* TRUE once a call has panicked (assert! or overflow)
    origin,           \* the Angle the run or the session started from
    run,              \* the update loop of a run: [first, n1, n2]
    calls,            \* the number of Encoder calls made in the session
    decodes           \* the number of calls of Rotary::update (decodes) made

vars == <<overflow_checks, angle, velocity, ret, panicked, origin, run, calls,
          decodes>>

----------------------------------------------------------------------------
(* Program constants *)

DEGREES_PER_REV == 360

I16_MIN == -32768

I16_MAX == 32767

MILLIS_PER_SEC == 1000

HALF_TURN_DEG == 180

----------------------------------------------------------------------------
(* Bounds of the model *)

\* The longest equal-and-opposite run: N updates one way, N back.
MaxN == 3

\* The length of a one-direction run (the tests' for loops).
RunLen == 1200

\* The number of Encoder calls in a session.
MaxCalls == 4

Direction == {"CounterClockwise", "Clockwise", "None"}

\* Inputs of the value-level specification.
CountsSet == {I16_MIN, -1200, 0, 1, 1200, I16_MAX}

RevSet == {0, 600, 2400}

TimeSet == {0, 1, 1001}

AngleSet == [counts : CountsSet, counts_per_rev : RevSet]

----------------------------------------------------------------------------
(* f32 values *)
(* A finite f32 is [k |-> "fin", s, m, e]: the value s * m * 2^e with s    *)
(* in {1, -1} and 2^23 <= m < 2^24, or zero (m = 0, e = 0, s = 1).  Every  *)
(* operation rounds its exact result to the nearest such value, ties to    *)
(* the even mantissa, as IEEE 754 does.  The exponent is not bounded: no   *)
(* value of the program reaches the overflow or the subnormal range of     *)
(* f32 (|counts| * 360 < 2^24, durations are u32 milliseconds).  No value  *)
(* is a negative zero: every zero comes from a count or a duration of 0.   *)

Abs(x) == IF x < 0 THEN -x ELSE x

Sign(x) == IF x < 0 THEN -1 ELSE IF x = 0 THEN 0 ELSE 1

\* The f32 mantissa has 24 bits (f32::MANTISSA_DIGITS).
MANTISSA_DIGITS == 24

MantissaMin == 2 ^ (MANTISSA_DIGITS - 1)

MantissaMax == 2 ^ MANTISSA_DIGITS

NaN == [k |-> "nan"]

Inf(s) == IF s < 0 THEN [k |-> "-inf"] ELSE [k |-> "inf"]

FZero == [k |-> "fin", s |-> 1, m |-> 0, e |-> 0]

\* The number of bits of m >= 0.
RECURSIVE BitLen(_)
BitLen(m) == IF m = 0 THEN 0 ELSE 1 + BitLen(m \div 2)

\* The mantissa q (2^23 <= q < 2^24) of s * q * 2^e, rounded up or not.
Rounded(s, q, e, up) ==
    LET m == IF up THEN q + 1 ELSE q
    IN  IF m = MantissaMax
        THEN [k |-> "fin", s |-> s, m |-> MantissaMin, e |-> e + 1]
        ELSE [k |-> "fin", s |-> s, m |-> m, e |-> e]

\* Round to nearest, ties to even: q is the truncated mantissa, r the part
\* cut off and half the half of the unit of q, in the same scale as r.
RoundsUp(q, r, half) == r > half \/ (r = half /\ q % 2 = 1)

\* The f32 nearest to s * m * 2^e, for an integer 0 < m < 2^31.
Nearest(s, m, e) ==
    LET n == BitLen(m)
    IN  IF n <= MANTISSA_DIGITS
        THEN [k |-> "fin", s |-> s, m |-> m * 2 ^ (MANTISSA_DIGITS - n),
              e |-> e - (MANTISSA_DIGITS - n)]
        ELSE LET sh == n - MANTISSA_DIGITS
                 q == m \div 2 ^ sh
                 r == m % 2 ^ sh
             IN  Rounded(s, q, e + sh, RoundsUp(q, r, 2 ^ (sh - 1)))

\* `x as f32` of an integer (|x| < 2^31).
AsF32(i) == IF i = 0 THEN FZero ELSE Nearest(Sign(i), Abs(i), 0)

FSign(x) ==
    CASE x.k = "fin" -> IF x.m = 0 THEN 0 ELSE x.s
      [] x.k = "inf" -> 1
      [] x.k = "-inf" -> -1
      [] OTHER -> 0

\* The product of two mantissas, as hi * 2^24 + lo with lo < 2^24 (the
\* factors are split in halves of 12 bits).
MantissaProduct(a, b) ==
    LET ah == a \div 4096
        al == a % 4096
        bh == b \div 4096
        bl == b % 4096
        mid == ah * bl + al * bh
        low == al * bl + (mid % 4096) * 4096
    IN  [hi |-> ah * bh + mid \div 4096 + low \div MantissaMax,
         lo |-> low % MantissaMax]

\* f32 multiplication.
FMul(x, y) ==
    IF x.k = "nan" \/ y.k = "nan" THEN NaN
    ELSE IF x.k = "fin" /\ y.k = "fin"
    THEN IF x.m = 0 \/ y.m = 0 THEN FZero
         ELSE LET p == MantissaProduct(x.m, y.m)
                  s == x.s * y.s
                  e == x.e + y.e
              IN  IF p.hi >= MantissaMin
                  THEN Rounded(s, p.hi, e + MANTISSA_DIGITS,
                               RoundsUp(p.hi, p.lo, MantissaMin))
                  ELSE LET q == 2 * p.hi + p.lo \div MantissaMin
                           r == p.lo % MantissaMin
                       IN  Rounded(s, q, e + MANTISSA_DIGITS - 1,
                                   RoundsUp(q, r, MantissaMin \div 2))
    ELSE IF FSign(x) = 0 \/ FSign(y) = 0 THEN NaN
    ELSE Inf(FSign(x) * FSign(y))

\* Long division: k more bits of the quotient q of (rem / d), rem < d.
RECURSIVE LongDiv(_, _, _, _)
LongDiv(q, rem, d, k) ==
    IF k = 0 THEN [q |-> q, rem |-> rem]
    ELSE IF 2 * rem >= d
         THEN LongDiv(2 * q + 1, 2 * rem - d, d, k - 1)
         ELSE LongDiv(2 * q, 2 * rem, d, k - 1)

\* f32 division (x/0 is an infinity, 0/0 and inf/inf are NaN).
FDiv(x, y) ==
    IF x.k = "nan" \/ y.k = "nan" THEN NaN
    ELSE IF y.k = "fin"
    THEN IF y.m = 0
         THEN IF FSign(x) = 0 THEN NaN ELSE Inf(FSign(x))
         ELSE IF x.k = "fin"
              THEN IF x.m = 0 THEN FZero
                   ELSE LET k == IF x.m >= y.m THEN MANTISSA_DIGITS - 1
                                 ELSE MANTISSA_DIGITS
                            d == LongDiv(x.m \div y.m, x.m % y.m, y.m, k)
                        IN  Rounded(x.s * y.s, d.q, x.e - y.e - k,
                                    RoundsUp(d.q, 2 * d.rem, y.m))
              ELSE Inf(FSign(x) * FSign(y))
    ELSE IF x.k = "fin" THEN FZero ELSE NaN

\* core::f32::consts::PI: 0x40490fdb, that is 13176795 * 2^-22.
PI_MANTISSA == 13176795

PI == [k |-> "fin", s |-> 1, m |-> PI_MANTISSA, e |-> -22]

----------------------------------------------------------------------------
(* Angle *)

\* Angle::new
AngleNew(counts_per_rev, origin_offset_counts) ==
    [counts |-> origin_offset_counts, counts_per_rev |-> counts_per_rev]

InI16(x) == I16_MIN <= x /\ x <= I16_MAX

Wrap16(x) == ((x - I16_MIN) % 65536) + I16_MIN

\* The outcome of an i16 operation whose mathematical result is x.
I16Result(x) ==
    IF InI16(x) THEN [st |-> "Ok", val |-> x]
    ELSE IF overflow_checks THEN [st |-> "Panic"]
    ELSE [st |-> "Ok", val |-> Wrap16(x)]

\* Angle::update with the two directions taken for each other.
AngleUpdateSwapped(a, direction) ==
    LET r == CASE direction = "CounterClockwise" -> I16Result(a.counts - 1)
               [] direction = "Clockwise" -> I16Result(a.counts + 1)
               [] OTHER -> [st |-> "Ok", val |-> a.counts]
    IN  IF r.st = "Panic" THEN [st |-> "Panic"]
        ELSE [st |-> "Ok", val |-> [a EXCEPT !.counts = r.val]]

\* Angle::update: the Angle after the update, or a panic.
AngleUpdate(a, direction) ==
    LET r == CASE direction = "CounterClockwise" -> I16Result(a.counts + 1)
               [] direction = "Clockwise" -> I16Result(a.counts - 1)
               [] OTHER -> [st |-> "Ok", val |-> a.counts]
    IN  IF r.st = "Panic" THEN [st |-> "Panic"]
        ELSE [st |-> "Ok", val |-> [a EXCEPT !.counts = r.val]]

\* impl Sub for Angle with the assertion compiled out (debug_assert!).
AngleSubNoAssert(self, other) ==
    LET r == I16Result(self.counts - other.counts)
    IN  IF r.st = "Panic" THEN [st |-> "Panic"]
        ELSE [st |-> "Ok",
              val |-> [counts |-> r.val, counts_per_rev |-> self.counts_per_rev]]

\* impl Sub for Angle: self - other.
AngleSub(self, other) ==
    IF self.counts_per_rev # other.counts_per_rev THEN [st |-> "Panic"]
    ELSE LET r == I16Result(self.counts - other.counts)
         IN  IF r.st = "Panic" THEN [st |-> "Panic"]
             ELSE [st |-> "Ok",
                   val |-> [counts |-> r.val, counts_per_rev |-> self.counts_per_rev]]

\* Angle::degrees
Degrees(a) ==
    FDiv(FMul(AsF32(a.counts), AsF32(DEGREES_PER_REV)), AsF32(a.counts_per_rev))

\* Angle::radians: self.degrees() * PI / 180.0
Radians(a) == FDiv(FMul(Degrees(a), PI), AsF32(HALF_TURN_DEG))

----------------------------------------------------------------------------
(* Velocity *)

\* Velocity::new
VelocityNew(initial_time, final_time, initial_angle, final_angle) ==
    [initial_time_since_epoch_milli_sec |-> initial_time,
     final_time_since_epoch_milli_sec |-> final_time,
     initial_angle |-> initial_angle,
     final_angle |-> final_angle]

\* Velocity::update that ignores a sample older than the window's final one.
VelocityUpdateDropOutOfOrder(v, current_angle, current_time) ==
    IF current_time < v.final_time_since_epoch_milli_sec THEN v
    ELSE [initial_angle |-> v.final_angle,
          final_angle |-> current_angle,
          initial_time_since_epoch_milli_sec |-> v.final_time_since_epoch_milli_sec,
          final_time_since_epoch_milli_sec |-> current_time]

\* Velocity::update
VelocityUpdate(v, current_angle, current_time) ==
    [initial_angle |-> v.final_angle,
     final_angle |-> current_angle,
     initial_time_since_epoch_milli_sec |-> v.final_time_since_epoch_milli_sec,
     final_time_since_epoch_milli_sec |-> current_time]

\* Velocity::angle_time_diffs with the timestamps compared the wrong way
\* round (>), so that an inverted window is subtracted (wrapping in u32
\* is left out: the difference is kept as it is).
AngleTimeDiffsWrongTest(v) ==
    LET delta_angle == AngleSub(v.final_angle, v.initial_angle)
    IN  IF delta_angle.st = "Panic" THEN [st |-> "Panic"]
        ELSE IF v.final_time_since_epoch_milli_sec
                    > v.initial_time_since_epoch_milli_sec
        THEN [st |-> "Err", delta_angle |-> delta_angle.val]
        ELSE [st |-> "Ok", delta_angle |-> delta_angle.val,
              delta_time |-> v.initial_time_since_epoch_milli_sec
                                - v.final_time_since_epoch_milli_sec]

\* Velocity::angle_time_diffs that also refuses a window of zero duration
\* (<= for <).
AngleTimeDiffsErrOnZero(v) ==
    LET delta_angle == AngleSub(v.final_angle, v.initial_angle)
    IN  IF delta_angle.st = "Panic" THEN [st |-> "Panic"]
        ELSE IF v.final_time_since_epoch_milli_sec
                    <= v.initial_time_since_epoch_milli_sec
        THEN [st |-> "Err", delta_angle |-> delta_angle.val]
        ELSE [st |-> "Ok", delta_angle |-> delta_angle.val,
              delta_time |-> v.final_time_since_epoch_milli_sec
                                - v.initial_time_since_epoch_milli_sec]

\* Velocity::angle_time_diffs: the subtraction of the angles comes first.
AngleTimeDiffs(v) ==
    LET delta_angle == AngleSub(v.final_angle, v.initial_angle)
    IN  IF delta_angle.st = "Panic" THEN [st |-> "Panic"]
        ELSE IF v.final_time_since_epoch_milli_sec
                    < v.initial_time_since_epoch_milli_sec
        THEN [st |-> "Err", delta_angle |-> delta_angle.val]
        ELSE [st |-> "Ok", delta_angle |-> delta_angle.val,
              delta_time |-> v.final_time_since_epoch_milli_sec
                                - v.initial_time_since_epoch_milli_sec]

\* Velocity::degrees_per_sec
DegreesPerSec(v) ==
    LET d == AngleTimeDiffs(v)
    IN  IF d.st = "Ok"
        THEN [st |-> "Ok",
              val |-> FDiv(Degrees(d.delta_angle),
                           FDiv(AsF32(d.delta_time), AsF32(MILLIS_PER_SEC)))]
        ELSE [st |-> d.st]

\* Velocity::radians_per_sec
RadiansPerSec(v) ==
    LET d == AngleTimeDiffs(v)
    IN  IF d.st = "Ok"
        THEN [st |-> "Ok",
              val |-> FDiv(Radians(d.delta_angle),
                           FDiv(AsF32(d.delta_time), AsF32(MILLIS_PER_SEC)))]
        ELSE [st |-> d.st]

----------------------------------------------------------------------------
(* The value-level specification: a Velocity built by Velocity::new from   *)
(* any inputs, slid by Velocity::update, and read.                         *)

NoRun == [first |-> "None", n1 |-> 0, n2 |-> 0]

Zero == AngleNew(0, 0)

InitValue ==
    /\ overflow_checks \in BOOLEAN
    /\ \E it \in TimeSet, ft \in TimeSet, ia \in AngleSet, fa \in AngleSet :
           velocity = VelocityNew(it, ft, ia, fa)
    /\ angle = Zero
    /\ origin = Zero
    /\ run = NoRun
    /\ ret = [op |-> "new"]
    /\ panicked = FALSE
    /\ calls = 0
    /\ decodes = 0

\* velocity.update(a, t)
VelocityUpdateCall ==
    /\ ~panicked
    /\ \E a \in AngleSet, t \in TimeSet :
           /\ velocity' = VelocityUpdate(velocity, a, t)
           /\ ret' = [op |-> "Velocity::update", current_angle |-> a, time |-> t,
                      inverted_before |->
                          velocity.final_time_since_epoch_milli_sec
                              < velocity.initial_time_since_epoch_milli_sec]
    /\ UNCHANGED <<overflow_checks, angle, panicked, origin, run, calls, decodes>>

\* velocity.final_angle() - velocity.initial_angle(), or the other way round
AngleSubCall ==
    /\ ~panicked
    /\ \E swap \in BOOLEAN :
        LET lhs == IF swap THEN velocity.initial_angle ELSE velocity.final_angle
            rhs == IF swap THEN velocity.final_angle ELSE velocity.initial_angle
            r == AngleSub(lhs, rhs)
        IN  /\ ret' = [op |-> "sub", lhs |-> lhs, rhs |-> rhs, res |-> r]
            /\ panicked' = (r.st = "Panic")
    /\ UNCHANGED <<overflow_checks, angle, velocity, origin, run, calls, decodes>>

\* velocity.degrees_per_sec()
DegreesPerSecCall ==
    /\ ~panicked
    /\ LET r == DegreesPerSec(velocity)
       IN  /\ ret' = [op |-> "degrees_per_sec", res |-> r]
           /\ panicked' = (r.st = "Panic")
    /\ UNCHANGED <<overflow_checks, angle, velocity, origin, run, calls, decodes>>

\* velocity.radians_per_sec()
RadiansPerSecCall ==
    /\ ~panicked
    /\ LET r == RadiansPerSec(velocity)
       IN  /\ ret' = [op |-> "radians_per_sec", res |-> r]
           /\ panicked' = (r.st = "Panic")
    /\ UNCHANGED <<overflow_checks, angle, velocity, origin, run, calls, decodes>>

NextValue ==
    \/ VelocityUpdateCall
    \/ AngleSubCall
    \/ DegreesPerSecCall
    \/ RadiansPerSecCall

SpecValue == InitValue /\ [][NextValue]_vars

----------------------------------------------------------------------------
(* Runs of Angle::update on one Angle: run.n1 updates in the direction     *)
(* run.first, then run.n2 <= run.n1 updates in the opposite direction.     *)

Opposite(d) ==
    CASE d = "Clockwise" -> "CounterClockwise"
      [] d = "CounterClockwise" -> "Clockwise"
      [] OTHER -> "None"

\* Origins of the equal-and-opposite runs: the ends of i16 and the middle.
OffsetSet == {I16_MIN, I16_MIN + 1, -1, 0, 300, I16_MAX - 1, I16_MAX}

\* (counts_per_rev, origin_offset) of the tests and of the stated examples.
TestAngles == {AngleNew(2400, 0), AngleNew(600, 300)}

InitRun(origins) ==
    /\ overflow_checks \in BOOLEAN
    /\ origin \in origins
    /\ angle = origin
    /\ run \in [first : {"Clockwise", "CounterClockwise"}, n1 : {0}, n2 : {0}]
    /\ velocity = VelocityNew(0, 0, Zero, Zero)
    /\ ret = [op |-> "new"]
    /\ panicked = FALSE
    /\ calls = 0
    /\ decodes = 0

\* angle.update(direction) in a loop: the call writes the Angle, or panics
\* and ends the program.
AngleUpdateCall(direction) ==
    LET r == AngleUpdate(angle, direction)
    IN  /\ ret' = [op |-> "Angle::update", direction |-> direction, st |-> r.st]
        /\ panicked' = (r.st = "Panic")
        /\ angle' = IF r.st = "Ok" THEN r.val ELSE angle

\* for _ in 0..n { angle.update(first) }
RunForward(bound) ==
    /\ ~panicked
    /\ run.n2 = 0
    /\ run.n1 < bound
    /\ AngleUpdateCall(run.first)
    /\ run' = [run EXCEPT !.n1 = @ + 1]
    /\ UNCHANGED <<overflow_checks, velocity, origin, calls, decodes>>

\* for _ in 0..n { angle.update(opposite of first) }
RunBack ==
    /\ ~panicked
    /\ run.n2 < run.n1
    /\ AngleUpdateCall(Opposite(run.first))
    /\ run' = [run EXCEPT !.n2 = @ + 1]
    /\ UNCHANGED <<overflow_checks, velocity, origin, calls, decodes>>

\* angle.degrees()
DegreesCall ==
    /\ ~panicked
    /\ ret' = [op |-> "Angle::degrees", res |-> Degrees(angle)]
    /\ UNCHANGED <<overflow_checks, angle, velocity, panicked, origin, run, calls, decodes>>

InitAngle == InitRun([counts : OffsetSet, counts_per_rev : RevSet])

NextAngle ==
    \/ RunForward(MaxN)
    \/ RunBack
    \/ DegreesCall

\* Equal-and-opposite runs from any origin.
SpecAngle == InitAngle /\ [][NextAngle]_vars

InitTest == InitRun(TestAngles)

NextTest ==
    \/ RunForward(RunLen)
    \/ DegreesCall

\* The tests' loops: one direction, RunLen times.
SpecTest == InitTest /\ [][NextTest]_vars

----------------------------------------------------------------------------
(* Encoder: the session.  Rotary::update of rotary_encoder_hal reads the   *)
(* two pins and returns the decoded Direction or a pin's error; it is the  *)
(* input hw of Encoder::update.                                            *)

HwResult == Direction \cup {"Err"}

\* Encoder::new with a window that starts at the epoch, not at the time given.
EncoderNewFromEpoch(starting_angle, initial_time) ==
    [angle |-> starting_angle,
     velocity |-> VelocityNew(0, initial_time, starting_angle, starting_angle)]

\* Encoder::new: the fields angle and velocity of the new Encoder.
EncoderNew(starting_angle, initial_time) ==
    [angle |-> starting_angle,
     velocity |-> VelocityNew(initial_time, initial_time,
                              starting_angle, starting_angle)]

\* Encoder::update with the error of the hardware looked at only after the
\* window was updated.
EncoderUpdateLateCheck(a, v, hw, current_time) ==
    IF hw = "Err"
    THEN [st |-> "Err", angle |-> a, decodes |-> 1,
          velocity |-> VelocityUpdate(v, a, current_time)]
    ELSE LET r == AngleUpdate(a, hw)
         IN  IF r.st = "Panic"
             THEN [st |-> "Panic", angle |-> a, velocity |-> v, decodes |-> 1]
             ELSE [st |-> "Ok", val |-> hw, angle |-> r.val, decodes |-> 1,
                   velocity |-> VelocityUpdate(v, r.val, current_time)]

\* Encoder::update that gives the window the Angle of before the step:
\* velocity.update ahead of angle.update.
EncoderUpdateWindowFirst(a, v, hw, current_time) ==
    IF hw = "Err"
    THEN [st |-> "Err", angle |-> a, velocity |-> v, decodes |-> 1]
    ELSE LET r == AngleUpdate(a, hw)
         IN  IF r.st = "Panic"
             THEN [st |-> "Panic", angle |-> a, decodes |-> 1,
                   velocity |-> VelocityUpdate(v, a, current_time)]
             ELSE [st |-> "Ok", val |-> hw, angle |-> r.val, decodes |-> 1,
                   velocity |-> VelocityUpdate(v, a, current_time)]

\* Encoder::update that decodes once more when the first decode failed
\* (and fails again).
EncoderUpdateRetry(a, v, hw, current_time) ==
    IF hw = "Err"
    THEN [st |-> "Err", angle |-> a, velocity |-> v, decodes |-> 2]
    ELSE LET r == AngleUpdate(a, hw)
         IN  IF r.st = "Panic"
             THEN [st |-> "Panic", angle |-> a, velocity |-> v, decodes |-> 1]
             ELSE [st |-> "Ok", val |-> hw, angle |-> r.val, decodes |-> 1,
                   velocity |-> VelocityUpdate(v, r.val, current_time)]

\* Encoder::update that leaves the window alone when nothing moved.
EncoderUpdateSkipNone(a, v, hw, current_time) ==
    IF hw = "Err"
    THEN [st |-> "Err", angle |-> a, velocity |-> v, decodes |-> 1]
    ELSE LET r == AngleUpdate(a, hw)
         IN  IF r.st = "Panic"
             THEN [st |-> "Panic", angle |-> a, velocity |-> v, decodes |-> 1]
             ELSE [st |-> "Ok", val |-> hw, angle |-> r.val, decodes |-> 1,
                   velocity |-> IF hw = "None" THEN v
                                ELSE VelocityUpdate(v, r.val, current_time)]

\* Encoder::update on the fields (a, v), with hw what self.hardware.update()
\* returns: what the call returns, the fields after it and the number of
\* times it called self.hardware.update() (once, on line 62).
EncoderUpdate(a, v, hw, current_time) ==
    IF hw = "Err"
    THEN [st |-> "Err", angle |-> a, velocity |-> v, decodes |-> 1]
    ELSE LET r == AngleUpdate(a, hw)
         IN  IF r.st = "Panic"
             THEN [st |-> "Panic", angle |-> a, velocity |-> v, decodes |-> 1]
             ELSE [st |-> "Ok", val |-> hw, angle |-> r.val, decodes |-> 1,
                   velocity |-> VelocityUpdate(v, r.val, current_time)]

\* Encoder::velocity with the clone taken after the window was advanced.
EncoderVelocityLateClone(v, current_angle, current_time) ==
    LET set == [v EXCEPT !.final_time_since_epoch_milli_sec = current_time,
                         !.final_angle = current_angle]
        adv == VelocityUpdate(set, current_angle, current_time)
    IN  [val |-> adv, velocity |-> adv]

\* Encoder::velocity without the two assignments of lines 86-87: the stored
\* window is returned as it is and then slid.
EncoderVelocityNoOverwrite(v, current_angle, current_time) ==
    [val |-> v, velocity |-> VelocityUpdate(v, current_angle, current_time)]

\* Encoder::velocity on the field v: the Velocity it returns and the field
\* after it.
EncoderVelocity(v, current_angle, current_time) ==
    LET set == [v EXCEPT !.final_time_since_epoch_milli_sec = current_time,
                         !.final_angle = current_angle]
    IN  [val |-> set,
         velocity |-> VelocityUpdate(set, current_angle, current_time)]

\* Inputs of the session.
StartSet == {AngleNew(600, 0), AngleNew(2400, I16_MAX), AngleNew(600, I16_MIN)}

OtherAngles == {AngleNew(600, 5), AngleNew(2400, 0)}

SessionTimes == {0, 1, 2}

Init ==
    /\ overflow_checks \in BOOLEAN
    /\ \E starting_angle \in StartSet, t0 \in SessionTimes :
           LET e == EncoderNew(starting_angle, t0)
           IN  /\ angle = e.angle
               /\ velocity = e.velocity
               /\ origin = starting_angle
               /\ ret = [op |-> "Encoder::new", starting_angle |-> starting_angle,
                         time |-> t0]
    /\ run = NoRun
    /\ panicked = FALSE
    /\ calls = 0
    /\ decodes = 0

\* encoder.update(t)
EncoderUpdateCall ==
    /\ ~panicked
    /\ calls < MaxCalls
    /\ \E hw \in HwResult, t \in SessionTimes :
           LET r == EncoderUpdate(angle, velocity, hw, t)
           IN  /\ angle' = r.angle
               /\ velocity' = r.velocity
               /\ panicked' = (r.st = "Panic")
               /\ decodes' = decodes + r.decodes
               /\ ret' = [op |-> "Encoder::update", time |-> t, st |-> r.st,
                          val |-> IF r.st = "Ok" THEN r.val ELSE "-"]
    /\ calls' = calls + 1
    /\ UNCHANGED <<overflow_checks, origin, run>>

\* encoder.velocity(current_angle, t), with the Encoder's own angle or
\* another one
EncoderVelocityCall ==
    /\ ~panicked
    /\ calls < MaxCalls
    /\ \E current_angle \in OtherAngles \cup {angle}, t \in SessionTimes :
           LET r == EncoderVelocity(velocity, current_angle, t)
           IN  /\ velocity' = r.velocity
               /\ ret' = [op |-> "Encoder::velocity", time |-> t,
                          current_angle |-> current_angle, val |-> r.val]
    /\ calls' = calls + 1
    /\ UNCHANGED <<overflow_checks, angle, panicked, origin, run, decodes>>

Next ==
    \/ EncoderUpdateCall
    \/ EncoderVelocityCall

Spec == Init /\ [][Next]_vars

NextPulse ==
    \/ EncoderUpdateCall

\* A session driven by Encoder::new and Encoder::update alone.
SpecPulse == Init /\ [][NextPulse]_vars

----------------------------------------------------------------------------
(* Claims about the values (SpecValue) *)

RateOps == {"degrees_per_sec", "radians_per_sec"}

IsRateCall == ret.op \in RateOps

Inverted ==
    velocity.final_time_since_epoch_milli_sec
        < velocity.initial_time_since_epoch_milli_sec

ZeroDuration ==
    velocity.final_time_since_epoch_milli_sec
        = velocity.initial_time_since_epoch_milli_sec

SameScale ==
    velocity.final_angle.counts_per_rev = velocity.initial_angle.counts_per_rev

\* The mathematical difference of the window's counts.
CountsDiff == velocity.final_angle.counts - velocity.initial_angle.counts

\* C2, as stated: on a window whose final timestamp is less than its
\* initial timestamp, whatever its angles, degrees_per_sec and
\* radians_per_sec return Err(VelocityArithmeticOverflowWouldOccur): no
\* numeric rate and no abort.
C2_InvertedAlwaysErr ==
    (IsRateCall /\ Inverted) => ret.res.st = "Err"

\* C2, amended: on a window whose final timestamp is less than its initial
\* timestamp neither rate function returns a numeric rate; it returns
\* Err(VelocityArithmeticOverflowWouldOccur) unless the subtraction of the
\* angles, which is done first, aborts: on angles of different
\* counts_per_rev, or on a count difference outside i16 in a build with
\* overflow checks.
C2_InvertedNeverNumeric ==
    (IsRateCall /\ Inverted) =>
        /\ ret.res.st # "Ok"
        /\ ret.res.st = "Panic" <=>
               (~SameScale \/ (overflow_checks /\ ~InI16(CountsDiff)))

C2_Witness ==
    /\ IsRateCall /\ Inverted /\ ret.res.st = "Err"
    /\ velocity.final_angle # velocity.initial_angle

\* C6: subtracting two Angles of different counts_per_rev panics and gives
\* no Angle, also when the subtraction is the one inside degrees_per_sec or
\* radians_per_sec.
C6_ScaleMismatchPanics ==
    /\ (ret.op = "sub" /\ ret.lhs.counts_per_rev # ret.rhs.counts_per_rev)
           => (ret.res.st = "Panic" /\ panicked)
    /\ (IsRateCall /\ ~SameScale) => (ret.res.st = "Panic" /\ panicked)

C6_Witness ==
    /\ ret.op = "radians_per_sec" /\ ~SameScale /\ Inverted
    /\ InI16(CountsDiff) /\ panicked

\* C7, as stated: for Angles of equal counts_per_rev the subtraction
\* returns an Angle of that counts_per_rev whose counts is the mathematical
\* difference self.counts - other.counts, for all i16 operands.
C7_SubIsExactDifference ==
    (ret.op = "sub" /\ ret.lhs.counts_per_rev = ret.rhs.counts_per_rev) =>
        /\ ret.res.st = "Ok"
        /\ ret.res.val = [counts |-> ret.lhs.counts - ret.rhs.counts,
                          counts_per_rev |-> ret.lhs.counts_per_rev]

\* The rate the claim C8 states, from the window's mathematical differences.
StatedDegreesPerSec ==
    FDiv(FDiv(AsF32(CountsDiff * 360),
              AsF32(velocity.final_angle.counts_per_rev)),
         FDiv(AsF32(velocity.final_time_since_epoch_milli_sec
                        - velocity.initial_time_since_epoch_milli_sec),
              AsF32(1000)))

\* C8, as stated: on a window of equal-scale angles whose final timestamp
\* is greater than its initial one, degrees_per_sec returns Ok of
\* (final.counts - initial.counts) * 360 / counts_per_rev over the
\* duration in seconds.
C8_DegreesPerSecValue ==
    (ret.op = "degrees_per_sec" /\ SameScale /\ ~Inverted /\ ~ZeroDuration) =>
        ret.res = [st |-> "Ok", val |-> StatedDegreesPerSec]

\* C10, as stated: on a window of equal-scale angles and zero duration
\* degrees_per_sec and radians_per_sec return Ok (an infinite or undefined
\* rate), not the error variant.
C10_ZeroDurationIsOk ==
    (IsRateCall /\ SameScale /\ ZeroDuration) =>
        /\ ret.res.st = "Ok"
        /\ ret.res.val.k \in {"inf", "-inf", "nan"}

----------------------------------------------------------------------------
(* Claims about runs of Angle::update (SpecAngle, SpecTest) *)

\* C5, as stated: from every starting Angle and for every N, N updates one
\* way followed by N updates the other way yield the starting Angle: no
\* update of the run aborts, and at the end counts and counts_per_rev are
\* those of the start.
C5_RoundTrip ==
    /\ ~panicked
    /\ (run.n2 = run.n1) => angle = origin

\* The signed number of counts a run has added.
RunDelta ==
    IF run.first = "CounterClockwise" THEN run.n1 - run.n2 ELSE run.n2 - run.n1

\* C9: an Angle of 2400 counts per revolution created at offset 0 reports
\* -180 degrees after 1200 Clockwise updates and +180 degrees after 1200
\* CounterClockwise updates; an Angle at offset 300 of 600 counts per
\* revolution reports 0 degrees after 300 Clockwise updates; after any run
\* degrees is (offset + CounterClockwise updates - Clockwise updates) * 360
\* / counts_per_rev.
C9_DegreesAfterRun ==
    ret.op = "Angle::degrees" =>
        /\ (origin = AngleNew(2400, 0) /\ run.n1 = 1200 /\ run.first = "Clockwise")
               => ret.res = AsF32(-180)
        /\ (origin = AngleNew(2400, 0) /\ run.n1 = 1200
                /\ run.first = "CounterClockwise")
               => ret.res = AsF32(180)
        /\ (origin = AngleNew(600, 300) /\ run.n1 = 300 /\ run.first = "Clockwise")
               => ret.res = AsF32(0)
        /\ ret.res = FDiv(AsF32((origin.counts + RunDelta) * 360),
                          AsF32(origin.counts_per_rev))

C9_Witness ==
    /\ ret.op = "Angle::degrees"
    /\ origin = AngleNew(2400, 0) /\ run.n1 = 1200 /\ run.first = "Clockwise"
    /\ ret.res = AsF32(-180)

----------------------------------------------------------------------------
(* Claims about the session (Spec) *)

\* C1: when the direction source fails during Encoder::update, the call
\* returns the error and leaves the Angle (counts, counts_per_rev) and the
\* four fields of the velocity window as they were.
C1_FailedUpdateChangesNothing ==
    [][(ret'.op = "Encoder::update" /\ ret'.st = "Err")
          => (angle' = angle /\ velocity' = velocity)]_vars

C1_Witness ==
    /\ ret.op = "Encoder::update" /\ ret.st = "Err"
    /\ angle # origin
    /\ velocity.initial_angle # velocity.final_angle
    /\ ret.time # velocity.final_time_since_epoch_milli_sec

NoMotionStep == ret'.op = "Encoder::update" /\ ret'.st = "Ok" /\ ret'.val = "None"

\* C3, as stated: a successful Encoder::update that decodes no motion
\* leaves the Angle's counts and the window's initial_angle and
\* final_angle as they were (only the timestamps may change).
C3_NoMotionKeepsWindowAngles ==
    [][NoMotionStep =>
          /\ angle'.counts = angle.counts
          /\ velocity'.initial_angle = velocity.initial_angle
          /\ velocity'.final_angle = velocity.final_angle]_vars

\* C3, amended: a successful Encoder::update that decodes no motion leaves
\* the Angle as it was and slides the window as any other pulse does: the
\* initial angle and timestamp become the previous final angle and
\* timestamp, the final angle becomes the session's (unchanged) Angle and
\* the final timestamp the time of the call.
C3_NoMotionSlidesWindow ==
    [][NoMotionStep =>
          /\ angle' = angle
          /\ velocity'.initial_angle = velocity.final_angle
          /\ velocity'.initial_time_since_epoch_milli_sec
                 = velocity.final_time_since_epoch_milli_sec
          /\ velocity'.final_angle = angle
          /\ velocity'.final_time_since_epoch_milli_sec = ret'.time]_vars

C3_Witness ==
    /\ ret.op = "Encoder::update" /\ ret.st = "Ok" /\ ret.val = "None"
    /\ angle # origin
    /\ velocity.initial_angle = angle /\ velocity.final_angle = angle
    /\ velocity.initial_time_since_epoch_milli_sec
           # velocity.final_time_since_epoch_milli_sec

\* C4: Encoder::velocity(current_angle, current_time) returns the window
\* as it is before advancing: the initial angle and timestamp the stored
\* window had before the call, with (current_angle, current_time) as the
\* final sample; the stored window is slid only after that, so that both
\* its samples are then (current_angle, current_time).
C4_VelocityReturnsWindowBeforeAdvance ==
    [][ret'.op = "Encoder::velocity" =>
          /\ ret'.val.initial_angle = velocity.initial_angle
          /\ ret'.val.initial_time_since_epoch_milli_sec
                 = velocity.initial_time_since_epoch_milli_sec
          /\ ret'.val.final_angle = ret'.current_angle
          /\ ret'.val.final_time_since_epoch_milli_sec = ret'.time
          /\ velocity' = VelocityNew(ret'.time, ret'.time,
                                     ret'.current_angle, ret'.current_angle)]_vars

C4_Witness ==
    /\ ret.op = "Encoder::velocity"
    /\ ret.val # velocity
    /\ ret.val.initial_angle # ret.val.final_angle
    /\ ret.val.initial_time_since_epoch_milli_sec
           < ret.val.final_time_since_epoch_milli_sec

----------------------------------------------------------------------------
(* Claims about Velocity::update (SpecValue) *)

VelocityUpdateStep == ret'.op = "Velocity::update"

\* C11: Velocity::update(new_angle, new_timestamp) always slides the
\* window, also when new_timestamp is smaller than the current final
\* timestamp: the initial angle and timestamp become the previous final
\* angle and timestamp, and the final angle and timestamp are the supplied
\* sample.
C11_UpdateAlwaysSlides ==
    [][VelocityUpdateStep =>
          /\ velocity'.initial_angle = velocity.final_angle
          /\ velocity'.initial_time_since_epoch_milli_sec
                 = velocity.final_time_since_epoch_milli_sec
          /\ velocity'.final_angle = ret'.current_angle
          /\ velocity'.final_time_since_epoch_milli_sec = ret'.time]_vars

\* An update with a timestamp older than the final one it replaced: the
\* sample is kept and the window is inverted.
C11_Witness ==
    /\ ret.op = "Velocity::update"
    /\ ret.time < velocity.initial_time_since_epoch_milli_sec
    /\ velocity.final_time_since_epoch_milli_sec = ret.time
    /\ velocity.final_angle = ret.current_angle
    /\ velocity.final_angle # velocity.initial_angle

\* C12, as stated: after every sequence of updates of an Angle created at
\* offset o, counts is o + (CounterClockwise updates) - (Clockwise
\* updates), without wraparound at any value, no update aborts, and
\* counts_per_rev is the one the Angle was created with.
C12_CountsAreOffsetPlusNet ==
    /\ ~panicked
    /\ angle.counts = origin.counts + RunDelta
    /\ angle.counts_per_rev = origin.counts_per_rev

----------------------------------------------------------------------------
(* Claims about the session, continued (Spec, SpecPulse) *)

SuccessfulUpdateStep == ret'.op = "Encoder::update" /\ ret'.st = "Ok"

\* The counts a decoded direction adds.
StepOf(direction) ==
    CASE direction = "CounterClockwise" -> 1
      [] direction = "Clockwise" -> -1
      [] OTHER -> 0

\* C13: Encoder::update applies the decoded direction to the Angle before
\* it updates the window: after every successful Encoder::update(t) the
\* Angle holds the counts after the step, the window's final angle is that
\* Angle and the window's final timestamp is t.
C13_WindowGetsAngleAfterStep ==
    [][SuccessfulUpdateStep =>
          /\ angle'.counts = Wrap16(angle.counts + StepOf(ret'.val))
          /\ velocity'.final_angle = angle'
          /\ velocity'.final_time_since_epoch_milli_sec = ret'.time]_vars

C13_Witness ==
    /\ ret.op = "Encoder::update" /\ ret.st = "Ok" /\ ret.val = "Clockwise"
    /\ velocity.final_angle = angle
    /\ velocity.initial_angle # angle
    /\ velocity.final_time_since_epoch_milli_sec = ret.time
    /\ velocity.initial_time_since_epoch_milli_sec # ret.time

\* C14: right after Encoder::new(starting_angle, t0) the Angle is
\* starting_angle and the window is degenerate: both its angles are
\* starting_angle and both its timestamps are t0.
C14_NewIsAtRest ==
    ret.op = "Encoder::new" =>
        /\ angle = ret.starting_angle
        /\ velocity.initial_angle = ret.starting_angle
        /\ velocity.final_angle = ret.starting_angle
        /\ velocity.initial_time_since_epoch_milli_sec = ret.time
        /\ velocity.final_time_since_epoch_milli_sec = ret.time

C14_Witness ==
    /\ ret.op = "Encoder::new"
    /\ ret.time > 0
    /\ angle.counts = I16_MAX
    /\ velocity.final_angle = angle
    /\ calls = 0

\* C16: every call of Encoder::update decodes exactly once, whether the
\* decode succeeds or fails, and no other call of the session decodes: a
\* failed decode is not tried again.
C16_OneDecodePerUpdate ==
    [][IF ret'.op = "Encoder::update"
       THEN decodes' = decodes + 1
       ELSE decodes' = decodes]_vars

\* Two updates and one velocity call, the last update failing: two decodes.
C16_Witness ==
    /\ ret.op = "Encoder::update" /\ ret.st = "Err"
    /\ calls = 3
    /\ decodes = 2

EncoderVelocityStep == ret'.op = "Encoder::velocity"

\* The angles and the timestamps of a window.
AnglesOf(v) == {v.initial_angle, v.final_angle}

TimesOf(v) ==
    {v.initial_time_since_epoch_milli_sec, v.final_time_since_epoch_milli_sec}

\* C17: after every Encoder::velocity(current_angle, current_time) the
\* stored window is degenerate, both its samples being (current_angle,
\* current_time); the final sample the window had before the call is
\* overwritten: the snapshot is made of the previous initial sample and
\* the supplied one, so that a previous final angle or timestamp that is
\* neither of these is in neither the snapshot nor the stored window.
C17_VelocityLeavesDegenerateWindow ==
    [][EncoderVelocityStep =>
          /\ AnglesOf(velocity') = {ret'.current_angle}
          /\ TimesOf(velocity') = {ret'.time}
          /\ AnglesOf(ret'.val) \cup AnglesOf(velocity')
                 \subseteq {velocity.initial_angle, ret'.current_angle}
          /\ TimesOf(ret'.val) \cup TimesOf(velocity')
                 \subseteq {velocity.initial_time_since_epoch_milli_sec,
                            ret'.time}]_vars

\* A velocity call after a pulse whose sample (the session's Angle) is in
\* neither the snapshot nor the stored window.
C17_Witness ==
    /\ ret.op = "Encoder::velocity"
    /\ angle # origin
    /\ decodes > 0
    /\ angle \notin AnglesOf(ret.val) \cup AnglesOf(velocity)
    /\ ret.val.initial_angle = origin
    /\ AnglesOf(velocity) = {ret.current_angle}

\* C18, as stated: in a session of Encoder::new and Encoder::update alone
\* the Angle and both angles of the window have the starting angle's
\* counts_per_rev, and the window's final and initial counts differ by at
\* most 1 in absolute value.
C18_PulseWindowInvariant ==
    /\ angle.counts_per_rev = origin.counts_per_rev
    /\ velocity.initial_angle.counts_per_rev = origin.counts_per_rev
    /\ velocity.final_angle.counts_per_rev = origin.counts_per_rev
    /\ Abs(velocity.final_angle.counts - velocity.initial_angle.counts) <= 1

----------------------------------------------------------------------------
(* Recovery from an inverted window (SpecValue) *)

\* C15: the overflow error is not sticky.  From any window, inverted or
\* not, one Velocity::update with a timestamp greater than or equal to the
\* window's final timestamp gives a window on which neither
\* degrees_per_sec nor radians_per_sec returns
\* VelocityArithmeticOverflowWouldOccur; and a rate call returns that
\* error only on a window whose final timestamp is less than its initial
\* one, whatever the windows before it were.
C15_ErrorIsNotSticky ==
    [][/\ (VelocityUpdateStep
              /\ ret'.time >= velocity.final_time_since_epoch_milli_sec)
           => (DegreesPerSec(velocity').st # "Err"
                  /\ RadiansPerSec(velocity').st # "Err")
       /\ (ret'.op \in RateOps /\ ret'.res.st = "Err")
           => (velocity.final_time_since_epoch_milli_sec
                  < velocity.initial_time_since_epoch_milli_sec)]_vars

\* An update of an inverted window with a timestamp equal to its final
\* one, after which the rate is computed.
C15_Witness ==
    /\ ret.op = "Velocity::update"
    /\ ret.inverted_before
    /\ ret.time = velocity.initial_time_since_epoch_milli_sec
    /\ DegreesPerSec(velocity).st = "Ok"
    /\ RadiansPerSec(velocity).st = "Ok"

====
